---- MODULE Spec2Model ----
(***************************************************************************)
(* Scene lifecycle of the four Three.js demo components                    *)
(* (RotatingCube, GalacticSolarSystem, ThreeDText, ImmersiveScene):        *)
(* mount effect, frame loop, resize handler, pointer handlers, cleanup.    *)
(*                                                                         *)
(* Units.  Lengths of the cube are in tenths (cubeSize 1.5 is 15), the     *)
(* mesh scale is kept times 15 (scale 1 is 15), angles are in thousandths  *)
(* of a radian (0.01 rad is 10), rotationSpeed is in tenths (1.0 is 10).   *)
(* A ratio width / height is kept as a reduced fraction; a zero            *)
(* denominator stands for the IEEE results Infinity (1/0) and NaN (0/0).   *)
(***************************************************************************)
EXTENDS Integers, Sequences, FiniteSets, TLC

\* ---------------------------------------------------------------- bounds
MaxInst == 2        \* scene instances that exist at once (live or with
                    \* callbacks still pending)
MaxDim  == 2        \* measured width of the mount point: 0..MaxDim
MaxPos  == 1        \* pointer coordinates: 0..MaxPos
MaxRot  == 20       \* |rotation| explored, thousandths of a radian
InnerW  == 3        \* window.innerWidth
InnerH  == 2        \* window.innerHeight
MaxPoints == 1      \* points followed of a particle system
MaxTime == 3        \* frames of the galaxy followed
MaxBuilds == 3      \* builds whose vehicles flyingObjectsRef may come to hold

Kinds == {"cube", "galaxy", "text", "city"}

\* ------------------------------------------------------- program constants
DefaultColor   == "#00ff88"
DefaultSize    == 15
DefaultSpeed   == 10
DefaultTexture == "solid"
OriginalSize   == 15
Sensitivity    == 10
AutoStep       == 10
FloatAmp       == 2     \* 0.2, in tenths: position.y = 0.2 * sin(Date.now() * 0.001)

Colors   == {"#00ff88", "#ff0088"}
CubeSizes == {15, 20}
Speeds   == {5, 10}
Textures == {"solid", "glass"}

\* the city: useState defaults and the values its panel offers
DefaultCityConfig ==
  [cameraMode |-> "orbital", timeOfDay |-> "night", effectsEnabled |-> TRUE]

CityOptions == {"cameraMode", "timeOfDay", "effectsEnabled"}

CityOptionValues(o) ==
  CASE o = "cameraMode"     -> {"orbital", "cinematic"}
    [] o = "timeOfDay"      -> {"night", "day"}
    [] o = "effectsEnabled" -> BOOLEAN

VehiclesPerBuild == 8    \* for (let i = 0; i < 8; i++)
USizeBase == 25          \* uSize: { value: 25 * renderer.getPixelRatio() }

DefaultConfig ==
  [cubeColor |-> DefaultColor, cubeSize |-> DefaultSize, autoRotate |-> TRUE,
   rotationSpeed |-> DefaultSpeed, cubeTexture |-> DefaultTexture]

Options == {"cubeColor", "cubeSize", "autoRotate", "rotationSpeed", "cubeTexture"}

OptionValues(o) ==
  CASE o = "cubeColor"     -> Colors
    [] o = "cubeSize"      -> CubeSizes
    [] o = "autoRotate"    -> BOOLEAN
    [] o = "rotationSpeed" -> Speeds
    [] o = "cubeTexture"   -> Textures

\* ------------------------------------------------------------------ state
VARIABLES
  kind,            \* which of the four components the page shows
  attached,        \* mountRef.current is non-null
  orphans,         \* instances built by a component that has been unmounted
  live,            \* instance whose cleanup React holds (0: none)
  rendererRef,     \* rendererRef.current (0: null)
  controlsRef,     \* controlsRef.current (0: null)
  children,        \* canvases (by instance) that are children of the mount point
  rafQueue,        \* pending frame requests
  animationIdRef,  \* animationIdRef.current / the closure's animationId (0: null)
  listeners,       \* registered event listeners
  timers,          \* instances whose setTimeout(handleResize) is pending
  disposed,        \* instances whose renderer.dispose() has run
  geoDisposed,     \* instances whose build geometries / materials were disposed
  camera,          \* aspect of the live instance's camera
  rsize,           \* size last given to the live renderer's setSize
  client,          \* measured clientWidth / clientHeight of the mount point
  cfg,             \* the cube component's useState values
  cube,            \* the mesh cubeRef.current refers to
  isDraggingRef,   \* isDraggingRef.current
  previousMousePositionRef,
  drag,            \* observation: rotation and pointer position at pointer-down
  hist,            \* observation: configuration and look before the last two
                   \* changes made on the control panel
  mountError,      \* outcome of the last mount effect: none / unhandled / fallback
  lastOp,          \* the handler that ran last
  log,             \* calls made by the handler that ran last, in order
  points,          \* position and velocity attributes of a particle system of
                   \* the city, in hundredths (followed in SpecParticles)
  cityCfg,         \* useState values of the city
  flyingObjectsRef,   \* vehicles in flyingObjectsRef.current: own, made by the
                      \* live build; old, made by builds since torn down
  particleSystemsRef, \* whose systems particleSystemsRef.current holds
  uSize,           \* uniform uSize of the galaxy's particle material, in
                   \* units of the renderer's pixel ratio
  galaxy,          \* the galaxy's point cloud, sun, first planet and its first
                   \* moon (followed in SpecGalaxy)
  vehicle          \* position, direction and speed of a flying vehicle of the
                   \* city (followed in SpecVehicles)

vars == <<kind, attached, orphans, live, rendererRef, controlsRef,
          children, rafQueue, animationIdRef, listeners, timers,
          disposed, geoDisposed, camera, rsize, client, cfg, cube,
          isDraggingRef, previousMousePositionRef, drag, hist, mountError,
          lastOp, log, points, cityCfg, flyingObjectsRef, particleSystemsRef,
          uSize, galaxy, vehicle>>

\* ---------------------------------------------------------------- helpers
RECURSIVE Gcd(_, _)
Gcd(a, b) == IF b = 0 THEN a ELSE Gcd(b, a % b)

\* JavaScript's width / height on non-negative integers
Ratio(w, h) ==
  IF h = 0 THEN [num |-> IF w = 0 THEN 0 ELSE 1, den |-> 0]
  ELSE [num |-> w \div Gcd(w, h), den |-> h \div Gcd(w, h)]

\* JavaScript's a || b on numbers
OrElse(a, b) == IF a # 0 THEN a ELSE b

\* one call made by a handler: the callee, the instance whose renderer, camera
\* or listener it concerns, whether that renderer was already disposed, and
\* the dimensions passed (setSize) or divided (camera aspect)
Ev(op, i, s, w, h) ==
  [op |-> op, inst |-> i, stale |-> i \in s.disposed, w |-> w, h |-> h]

Call(s, op, i) == [s EXCEPT !.log = Append(@, Ev(op, i, s, 0, 0))]

CallWH(s, op, i, w, h) == [s EXCEPT !.log = Append(@, Ev(op, i, s, w, h))]

\* mountRef.current as seen by a closure of instance i: the ref of the
\* component that built i; null once that component is unmounted
MountRefOf(s, i) == s.attached /\ i \notin s.orphans

Listener(type, target, i) == [type |-> type, target |-> target, inst |-> i]

NoCube == [inst |-> 0, edge |-> 0, color |-> "", variant |-> "", scale |-> 15,
           rotX |-> 0, rotY |-> 0, posY |-> 0]

NoGalaxy == [attrs |-> <<>>, time |-> 0, cloudRotY |-> 0, uTime |-> 0,
             sunRotY |-> 0, planetAngle |-> 0, planetRotY |-> 0, moonAngle |-> 0]

NoVehicle == [x |-> 0, y |-> 0, z |-> 0, dx |-> 0, dy |-> 0, dz |-> 0,
              speed |-> 0, far |-> FALSE]

NoVehicles == [own |-> 0, old |-> 0]

NoDrag == [on |-> FALSE, rotX |-> 0, rotY |-> 0, x |-> 0, y |-> 0,
           ticked |-> FALSE]

State ==
  [attached |-> attached, orphans |-> orphans, live |-> live,
   rendererRef |-> rendererRef,
   controlsRef |-> controlsRef, children |-> children, rafQueue |-> rafQueue,
   animationIdRef |-> animationIdRef,
   listeners |-> listeners, timers |-> timers, disposed |-> disposed,
   geoDisposed |-> geoDisposed, camera |-> camera, rsize |-> rsize,
   client |-> client, cfg |-> cfg, cube |-> cube,
   isDraggingRef |-> isDraggingRef,
   previousMousePositionRef |-> previousMousePositionRef,
   drag |-> drag, mountError |-> mountError, log |-> log, points |-> points,
   cityCfg |-> cityCfg, flyingObjectsRef |-> flyingObjectsRef,
   particleSystemsRef |-> particleSystemsRef, uSize |-> uSize,
   galaxy |-> galaxy, vehicle |-> vehicle]

\* instance names are handles: one is in use while the program or the browser
\* still holds something of that instance
InUse(s) ==
  ({s.live, s.rendererRef, s.controlsRef, s.cube.inst} \ {0})
    \cup s.children \cup s.timers
    \cup {r.inst : r \in s.rafQueue} \cup {l.inst : l \in s.listeners}

Named(s) == InUse(s) \cup {s.log[n].inst : n \in 1..Len(s.log)}

HasFreeInst(s) == \E i \in 1..MaxInst : i \notin Named(s)

NewInst(s) == CHOOSE i \in 1..MaxInst :
                /\ i \notin Named(s)
                /\ \A j \in 1..MaxInst : j \notin Named(s) => i <= j

\* requestAnimationFrame returns an id no pending request has and that differs
\* from every id the program still remembers; kept: the program keeps the id
\* now in animationIdRef (the caller does not overwrite it)
NewRafId(s, kept) ==
  LET taken == {r.id : r \in s.rafQueue} \cup (IF kept THEN {s.animationIdRef} ELSE {})
      ids == 1..(Cardinality(taken) + 1)
  IN CHOOSE n \in ids : n \notin taken /\ \A m \in ids : m \notin taken => n <= m

\* forget what is recorded about instances nothing refers to any more
Forget(s) ==
  [s EXCEPT !.disposed = @ \cap Named(s),
            !.geoDisposed = @ \cap Named(s),
            !.orphans = @ \cap Named(s)]

Install(s) ==
  \E n \in {Forget(s)} :
     /\ attached' = n.attached
     /\ orphans' = n.orphans
     /\ live' = n.live
     /\ rendererRef' = n.rendererRef
     /\ controlsRef' = n.controlsRef
     /\ children' = n.children
     /\ rafQueue' = n.rafQueue
     /\ animationIdRef' = n.animationIdRef
     /\ listeners' = n.listeners
     /\ timers' = n.timers
     /\ disposed' = n.disposed
     /\ geoDisposed' = n.geoDisposed
     /\ camera' = n.camera
     /\ rsize' = n.rsize
     /\ client' = n.client
     /\ cfg' = n.cfg
     /\ cube' = n.cube
     /\ isDraggingRef' = n.isDraggingRef
     /\ previousMousePositionRef' = n.previousMousePositionRef
     /\ drag' = n.drag
     /\ mountError' = n.mountError
     /\ log' = n.log
     /\ points' = n.points
     /\ cityCfg' = n.cityCfg
     /\ flyingObjectsRef' = n.flyingObjectsRef
     /\ particleSystemsRef' = n.particleSystemsRef
     /\ uSize' = n.uSize
     /\ galaxy' = n.galaxy
     /\ vehicle' = n.vehicle

\* ------------------------------------------------------------ frame loop
\* the if-chain choosing the material
MaterialOf(cubeTexture) ==
  IF cubeTexture = "wireframe" THEN "wireframe"
  ELSE IF cubeTexture = "metallic" THEN "metallic"
  ELSE IF cubeTexture = "glass" THEN "glass"
  ELSE "solid"

\* the closure of one instance's animate: the instance and the props captured
\* the useState values an effect run sees, which its animate closes over
Captured(s) ==
  [autoRotate |-> s.cfg.autoRotate, rotationSpeed |-> s.cfg.rotationSpeed,
   cameraMode |-> s.cityCfg.cameraMode]

Closure(i, c) ==
  [inst |-> i, autoRotate |-> c.autoRotate, rotationSpeed |-> c.rotationSpeed,
   cameraMode |-> c.cameraMode]

Request(id, clo) ==
  [id |-> id, inst |-> clo.inst, autoRotate |-> clo.autoRotate,
   rotationSpeed |-> clo.rotationSpeed, cameraMode |-> clo.cameraMode]

\* animate as it would be without the test of isDraggingRef
AnimateCube_IgnoresDrag(c, clo, dragging) ==
  IF c.inst = 0 THEN c
  ELSE [c EXCEPT
          !.rotX = IF clo.autoRotate THEN @ + (AutoStep * clo.rotationSpeed) \div 10 ELSE @,
          !.rotY = IF clo.autoRotate THEN @ + (AutoStep * clo.rotationSpeed) \div 10 ELSE @,
          !.posY = IF clo.autoRotate THEN FloatAmp ELSE 0]

\* animate as it would be if it turned the cube about the Y axis alone
AnimateCube_YOnly(c, clo, dragging) ==
  IF c.inst = 0 THEN c
  ELSE LET spin == clo.autoRotate /\ ~dragging
       IN [c EXCEPT
             !.rotY = IF spin THEN @ + (AutoStep * clo.rotationSpeed) \div 10 ELSE @,
             !.posY = IF clo.autoRotate THEN FloatAmp ELSE 0]

\* the cube part of animate; posY is the amplitude a (in tenths) of
\* position.y = a * sin(t), t the tick's Date.now() * 0.001
AnimateCube(c, clo, dragging) ==
  IF c.inst = 0 THEN c
  ELSE LET spin == clo.autoRotate /\ ~dragging
       IN [c EXCEPT
             !.rotX = IF spin THEN @ + (AutoStep * clo.rotationSpeed) \div 10 ELSE @,
             !.rotY = IF spin THEN @ + (AutoStep * clo.rotationSpeed) \div 10 ELSE @,
             !.posY = IF clo.autoRotate THEN FloatAmp ELSE 0]

\* animate: schedule the next frame first, update, then draw
\* animate up to its last statement: the next frame is requested first, then
\* the scene is advanced
Frame(s, clo, k) ==
  LET own == k = "text" /\ clo.inst # s.live
      id == NewRafId(s, own)
      s1 == [Call(s, "requestAnimationFrame", clo.inst) EXCEPT
               !.rafQueue = @ \cup {Request(id, clo)},
               !.animationIdRef = IF own THEN @ ELSE id]
  IN IF k = "cube"
     THEN [s1 EXCEPT !.cube = AnimateCube(@, clo, s.isDraggingRef)]
     ELSE IF k = "city"
     THEN LET s2 == IF s.particleSystemsRef # "none"
                    THEN Call(s1, "updateParticles", clo.inst) ELSE s1
          IN IF clo.cameraMode = "cinematic"
             THEN Call(s2, "cinematicCamera", clo.inst) ELSE s2
     ELSE s1

\* animate as it would be if it drew first and requested the next frame last
Animate_DrawFirst(s, clo, k) == Frame(Call(s, "render", clo.inst), clo, k)

Animate(s, clo, k) == Call(Frame(s, clo, k), "render", clo.inst)

\* animate when renderer.render throws: the exception leaves the callback
\* after everything before the draw call has run
AnimateThrows(s, clo, k) == Call(Frame(s, clo, k), "renderThrows", clo.inst)

\* -------------------------------------------------------- resize handler
\* handleResize as it would be if it measured the window, as the mount
\* effect of the city scene does
MeasuredW_Window(s, k) == InnerW

MeasuredW(s, k) == IF k \in {"cube", "galaxy"} THEN OrElse(s.client.w, InnerW)
                   ELSE s.client.w

MeasuredH(s, k) == IF k \in {"cube", "galaxy"} THEN OrElse(s.client.h, InnerH)
                   ELSE s.client.h

\* handleResize as it would be if it also put the cube back as built
handleResize_Reset(s, i, k) ==
  IF ~MountRefOf(s, i) THEN s
  ELSE LET w == MeasuredW(s, k)
           h == MeasuredH(s, k)
           s1 == CallWH(CallWH(s, "updateProjectionMatrix", i, w, h),
                        "setSize", i, w, h)
       IN IF i = s.live
          THEN [s1 EXCEPT !.camera = Ratio(w, h), !.rsize = [w |-> w, h |-> h],
                          !.uSize = IF k = "galaxy" THEN USizeBase ELSE @,
                          !.cube = [@ EXCEPT !.rotX = 0, !.rotY = 0]]
          ELSE s1

\* handleResize as it would be if it scaled the aspect the camera already has
handleResize_Relative(s, i, k) ==
  IF ~MountRefOf(s, i) THEN s
  ELSE LET w == MeasuredW(s, k)
           h == MeasuredH(s, k)
           s1 == CallWH(CallWH(s, "updateProjectionMatrix", i, w, h),
                        "setSize", i, w, h)
       IN IF i = s.live
          THEN [s1 EXCEPT !.camera = Ratio(w * s.camera.den, h * s.camera.num),
                          !.uSize = IF k = "galaxy" THEN USizeBase ELSE @,
                          !.rsize = [w |-> w, h |-> h]]
          ELSE s1

handleResize(s, i, k) ==
  IF ~MountRefOf(s, i) THEN s
  ELSE LET w == MeasuredW(s, k)
           h == MeasuredH(s, k)
           s1 == CallWH(CallWH(s, "updateProjectionMatrix", i, w, h),
                        "setSize", i, w, h)
       IN IF i = s.live
          THEN [s1 EXCEPT !.camera = Ratio(w, h), !.rsize = [w |-> w, h |-> h],
                          !.uSize = IF k = "galaxy" THEN USizeBase ELSE @]
          ELSE s1

\* ----------------------------------------------------------- mount effect
\* width and height the mount effect reads for the camera and the renderer
InitialW(s, k) == IF k = "city" THEN InnerW
                  ELSE IF k = "text" THEN s.client.w
                  ELSE OrElse(s.client.w, InnerW)

InitialH(s, k) == IF k = "city" THEN InnerH
                  ELSE IF k = "text" THEN s.client.h
                  ELSE OrElse(s.client.h, InnerH)

\* the mesh as it would be if it were created already turned
BuildCube_Turned(i, c) ==
  [inst |-> i, edge |-> c.cubeSize, color |-> c.cubeColor,
   variant |-> MaterialOf(c.cubeTexture), scale |-> 15,
   rotX |-> 5, rotY |-> 5, posY |-> 0]

BuildCube(i, c) ==
  [inst |-> i, edge |-> c.cubeSize, color |-> c.cubeColor,
   variant |-> MaterialOf(c.cubeTexture), scale |-> 15,
   rotX |-> 0, rotY |-> 0, posY |-> 0]

NoCamera == [num |-> 1, den |-> 1]

NoSize == [w |-> 0, h |-> 0]

\* React discards the component: its refs and useState values are gone, and
\* every closure it created sees its mountRef.current as null from now on
Discard(s) ==
  [s EXCEPT !.attached = FALSE, !.children = {}, !.live = 0,
            !.orphans = @ \cup InUse(s),
            !.rendererRef = 0, !.controlsRef = 0, !.animationIdRef = 0,
            !.camera = NoCamera, !.rsize = NoSize,
            !.cfg = DefaultConfig, !.cube = NoCube, !.isDraggingRef = FALSE,
            !.previousMousePositionRef = [x |-> 0, y |-> 0],
            !.drag = NoDrag,
            !.cityCfg = DefaultCityConfig, !.flyingObjectsRef = NoVehicles,
            !.particleSystemsRef = "none", !.uSize = 0]

\* the renderer constructor throws inside the effect: nothing catches it, the
\* error leaves the effect and React removes the component tree
Crashed(s) == [Discard(s) EXCEPT !.mountError = "unhandled"]

\* the listeners the effect registers, other than the controls'
EffectListeners(i, k) ==
  {Listener("resize", "window", i)} \cup
  (IF k = "cube"
   THEN {Listener("mousedown", "canvas", i), Listener("mousemove", "document", i),
         Listener("mouseup", "document", i)}
   ELSE {})

\* the body of the mount effect; glOk: new THREE.WebGLRenderer() returns
MountEffect(s, k, glOk) ==
  IF ~s.attached THEN s
  ELSE
    LET cleared == Forget([s EXCEPT !.children = {}])
    IN IF cleared.rendererRef # 0 THEN cleared
       ELSE
         LET i == NewInst(cleared)
             w == InitialW(s, k)
             h == InitialH(s, k)
         IN IF ~glOk
            THEN Crashed(cleared)
            ELSE
              LET s1 == [CallWH(cleared, "setSize", i, w, h) EXCEPT
                           !.live = i,
                           !.camera = Ratio(w, h),
                           !.rsize = [w |-> w, h |-> h],
                           !.rendererRef = i,
                           !.children = {i},
                           !.controlsRef = IF k = "text" THEN @ ELSE i,
                           !.listeners = @ \cup {Listener("controls", "canvas", i)},
                           !.cube = IF k = "cube" THEN BuildCube(i, s.cfg) ELSE @,
                           !.uSize = IF k = "galaxy" THEN USizeBase ELSE @,
                           !.flyingObjectsRef =
                              IF k = "city"
                              THEN [own |-> VehiclesPerBuild, old |-> @.old + @.own]
                              ELSE @,
                           !.particleSystemsRef =
                              IF k # "city" THEN @
                              ELSE IF s.cityCfg.effectsEnabled THEN "live"
                              ELSE IF @ = "none" THEN "none" ELSE "old",
                           !.mountError = "none"]
                  s2 == Animate(s1, Closure(i, Captured(s)), k)
                  s3 == [s2 EXCEPT
                           !.listeners = @ \cup EffectListeners(i, k),
                           !.timers = IF k = "city" THEN @ ELSE @ \cup {i}]
              IN IF k = "city" THEN handleResize(s3, i, k) ELSE s3

\* the second effect of RotatingCube: color and scale of cubeRef.current
PropertyEffect(s) ==
  IF s.cube.inst = 0 THEN s
  ELSE [s EXCEPT !.cube.color = s.cfg.cubeColor,
                 !.cube.scale = (s.cfg.cubeSize * 15) \div OriginalSize]

\* ---------------------------------------------------------------- cleanup
\* the cleanups as they would be without cancelAnimationFrame
CleanupSteps_NoCancel(k) ==
  CASE k = "cube" ->
         <<"removeResize", "controlsDispose", "removeMouse",
           "detachCanvas", "rendererDispose", "clearRendererRef",
           "disposeGeometry">>
    [] k = "galaxy" ->
         <<"removeResize", "controlsDispose", "detachCanvas",
           "rendererDispose", "clearRendererRef", "disposeGeometry">>
    [] k = "text" ->
         <<"removeResize", "detachCanvas", "rendererDispose",
           "clearRendererRef", "disposeGeometry", "controlsDispose">>
    [] k = "city" ->
         <<"removeResize", "controlsDispose", "detachCanvas",
           "rendererDispose", "clearRendererRef">>

\* the statements of each effect's cleanup, in source order
\* the cleanup as it would be if it left the pointer listeners registered
CleanupSteps_KeepMouse(k) ==
  CASE k = "cube" ->
         <<"removeResize", "cancelFrame", "controlsDispose",
           "detachCanvas", "rendererDispose", "clearRendererRef",
           "disposeGeometry">>
    [] k = "galaxy" ->
         <<"removeResize", "cancelFrame", "controlsDispose", "detachCanvas",
           "rendererDispose", "clearRendererRef", "disposeGeometry">>
    [] k = "text" ->
         <<"removeResize", "cancelFrame", "detachCanvas", "rendererDispose",
           "clearRendererRef", "disposeGeometry", "controlsDispose">>
    [] k = "city" ->
         <<"removeResize", "cancelFrame", "controlsDispose", "detachCanvas",
           "rendererDispose", "clearRendererRef">>

CleanupSteps(k) ==
  CASE k = "cube" ->
         <<"removeResize", "cancelFrame", "controlsDispose", "removeMouse",
           "detachCanvas", "rendererDispose", "clearRendererRef",
           "disposeGeometry">>
    [] k = "galaxy" ->
         <<"removeResize", "cancelFrame", "controlsDispose", "detachCanvas",
           "rendererDispose", "clearRendererRef", "disposeGeometry">>
    [] k = "text" ->
         <<"removeResize", "cancelFrame", "detachCanvas", "rendererDispose",
           "clearRendererRef", "disposeGeometry", "controlsDispose">>
    [] k = "city" ->
         <<"removeResize", "cancelFrame", "controlsDispose", "detachCanvas",
           "rendererDispose", "clearRendererRef">>

\* one statement of the cleanup of instance i
CleanupStep(step, s, i, k) ==
  CASE step = "removeResize" ->
         [Call(s, step, i) EXCEPT
            !.listeners = @ \ {Listener("resize", "window", i)}]
    [] step = "cancelFrame" ->
         IF s.animationIdRef = 0 THEN s
         ELSE [Call(s, step, i) EXCEPT
                 !.rafQueue = {r \in @ : r.id # s.animationIdRef},
                 !.animationIdRef = IF k = "cube" THEN 0 ELSE @]
    [] step = "controlsDispose" ->
         LET c == IF k = "text" THEN i ELSE s.controlsRef
         IN IF c = 0 THEN s
            ELSE [Call(s, step, c) EXCEPT
                    !.listeners = @ \ {Listener("controls", "canvas", c)}]
    [] step = "removeMouse" ->
         [Call(s, step, i) EXCEPT
            !.listeners = @ \ {Listener("mousedown", "canvas", i),
                               Listener("mousemove", "document", i),
                               Listener("mouseup", "document", i)}]
    [] step = "detachCanvas" ->
         IF ~MountRefOf(s, i) THEN s
         ELSE [(IF i \in s.children THEN Call(s, step, i) ELSE s) EXCEPT
                 !.children = {}]
    [] step = "rendererDispose" ->
         [Call(s, step, i) EXCEPT !.disposed = @ \cup {i}]
    [] step = "clearRendererRef" ->
         [s EXCEPT !.rendererRef = 0]
    [] step = "disposeGeometry" ->
         [Call(s, step, i) EXCEPT !.geoDisposed = @ \cup {i}]

RECURSIVE RunSteps(_, _, _, _)
RunSteps(steps, s, i, k) ==
  IF steps = <<>> THEN s
  ELSE RunSteps(Tail(steps), CleanupStep(Head(steps), s, i, k), i, k)

\* the function the mount effect returns, for instance i
Cleanup(s, i, k) == [RunSteps(CleanupSteps(k), s, i, k) EXCEPT !.live = 0]

\* ------------------------------------------------------------------- Init
\* zero and positive measurements of the mount point
Sizes == [w : 0..MaxDim, h : {0, 1}]

InitWith(k, size) ==
  /\ kind = k
  /\ attached = FALSE
  /\ orphans = {}
  /\ live = 0
  /\ rendererRef = 0
  /\ controlsRef = 0
  /\ children = {}
  /\ rafQueue = {}
  /\ animationIdRef = 0
  /\ listeners = {}
  /\ timers = {}
  /\ disposed = {}
  /\ geoDisposed = {}
  /\ camera = NoCamera
  /\ rsize = NoSize
  /\ client = size
  /\ cfg = DefaultConfig
  /\ cube = NoCube
  /\ isDraggingRef = FALSE
  /\ previousMousePositionRef = [x |-> 0, y |-> 0]
  /\ drag = NoDrag
  /\ hist = <<>>
  /\ mountError = "none"
  /\ lastOp = "init"
  /\ log = <<>>
  /\ cityCfg = DefaultCityConfig
  /\ flyingObjectsRef = NoVehicles
  /\ particleSystemsRef = "none"
  /\ uSize = 0

Init ==
  \E k \in Kinds : \E size \in Sizes :
     InitWith(k, size) /\ points = <<>> /\ galaxy = NoGalaxy
       /\ vehicle = NoVehicle

\* what the cube looks like: color, edge length on screen (geometry edge times
\* scale, in 1/150), material
Look(c) == [color |-> c.color, size |-> c.edge * c.scale, variant |-> c.variant]

\* both effects of the component, in declaration order
RunEffects(s, k, glOk) ==
  LET s1 == MountEffect(s, k, glOk)
  IN IF k = "cube" THEN PropertyEffect(s1) ELSE s1

\* React mounts the component: the ref is attached, then the effects run
Mount(glOk) ==
  /\ ~attached /\ live = 0
  /\ LET s0 == [State EXCEPT !.attached = TRUE, !.log = <<>>]
     IN HasFreeInst(s0) /\ Install(RunEffects(s0, kind, glOk))
  /\ lastOp' = "mount"
  /\ hist' = <<>>
  /\ UNCHANGED kind

\* a dependency list that would leave the rotation options out
MountDeps_NoSpeed == {"cubeColor", "cubeSize", "autoRotate", "cubeTexture"}

MountDeps_Partial == {"cubeColor", "cubeSize", "cubeTexture"}

\* the dependency list of the mount effect
MountDeps == {"cubeColor", "cubeSize", "autoRotate", "rotationSpeed", "cubeTexture"}

\* the dependency list of the property effect
PropertyDeps == {"cubeColor", "cubeSize"}

\* a control of the cube panel sets option o to v: the cleanup, then the
\* effects whose dependency lists hold o
SetOption(s, o, v, glOk) ==
  LET s0 == [s EXCEPT !.cfg = [s.cfg EXCEPT ![o] = v], !.drag = NoDrag,
                      !.log = <<>>]
      s1 == IF o \in MountDeps
            THEN MountEffect(Cleanup(s0, s.live, "cube"), "cube", glOk)
            ELSE s0
  IN IF o \in PropertyDeps THEN PropertyEffect(s1) ELSE s1

\* the control for o is on the panel, and an instance name is free again once
\* the cleanup has run
CanSetOption(s, o, v) ==
  /\ s.attached /\ s.live # 0
  /\ v \in OptionValues(o) /\ v # s.cfg[o]
  /\ o = "rotationSpeed" => s.cfg.autoRotate
  /\ HasFreeInst(Cleanup([s EXCEPT !.log = <<>>], s.live, "cube"))

ChangeConfig(o, v, glOk) ==
  /\ kind = "cube"
  /\ CanSetOption(State, o, v)
  /\ Install(SetOption(State, o, v, glOk))
  /\ lastOp' = "changeConfig"
  /\ UNCHANGED kind

\* the list of vehicles has room for those of one more build
VehiclesOk(s) ==
  s.flyingObjectsRef.own + s.flyingObjectsRef.old < VehiclesPerBuild * MaxBuilds

\* a control of the city's panel sets an option: React re-renders, runs the
\* cleanup of the effect and then the effect again
ChangeCityConfig(o, v, glOk) ==
  /\ kind = "city" /\ attached /\ live # 0
  /\ v \in CityOptionValues(o) /\ v # cityCfg[o]
  /\ VehiclesOk(State)
  /\ LET s0 == [State EXCEPT !.cityCfg = [@ EXCEPT ![o] = v], !.log = <<>>]
         s1 == Cleanup(s0, live, "city")
     IN HasFreeInst(s1) /\ Install(MountEffect(s1, "city", glOk))
  /\ lastOp' = "changeCity"
  /\ hist' = <<>>
  /\ UNCHANGED kind

\* React development mode re-runs the effects of a mounted component: cleanup,
\* then every effect again; refDetached: the ref is null while the cleanup runs
StrictRemount(refDetached, glOk) ==
  /\ attached /\ live # 0
  /\ VehiclesOk(State)
  /\ LET s0 == [State EXCEPT !.attached = ~refDetached, !.drag = NoDrag,
                             !.log = <<>>]
         s1 == [Cleanup(s0, live, kind) EXCEPT !.attached = TRUE]
     IN HasFreeInst(s1) /\ Install(RunEffects(s1, kind, glOk))
  /\ lastOp' = "strictRemount"
  /\ hist' = <<>>
  /\ UNCHANGED kind

\* React unmounts the component: the ref is detached and the mount point
\* leaves the page, then the cleanup runs
Unmount ==
  /\ attached /\ live # 0
  /\ LET s0 == [State EXCEPT !.attached = FALSE, !.children = {}, !.log = <<>>]
     IN Install(Discard(Cleanup(s0, live, kind)))
  /\ lastOp' = "unmount"
  /\ hist' = <<>>
  /\ UNCHANGED kind

\* the body of the mount effect is entered while rendererRef.current is set
DuplicateMount ==
  /\ attached /\ rendererRef # 0
  /\ Install(MountEffect([State EXCEPT !.log = <<>>], kind, TRUE))
  /\ lastOp' = "duplicateMount"
  /\ UNCHANGED hist
  /\ UNCHANGED kind

RotOk(c) == c.rotX <= MaxRot /\ c.rotX >= -MaxRot /\ c.rotY <= MaxRot /\ c.rotY >= -MaxRot

\* the browser runs a pending frame callback
Tick(req) ==
  /\ req \in rafQueue
  /\ LET s0 == [State EXCEPT
                  !.rafQueue = @ \ {req},
                  !.drag.ticked = @ \/ (drag.on /\ isDraggingRef),
                  !.log = <<>>]
         s1 == Animate(s0, Closure(req.inst, req), kind)
     IN RotOk(s1.cube) /\ Install(s1)
  /\ lastOp' = "animate"
  /\ UNCHANGED hist
  /\ UNCHANGED kind

\* a frame callback in which renderer.render throws
TickDrawError(req) ==
  /\ req \in rafQueue
  /\ LET s0 == [State EXCEPT
                  !.rafQueue = @ \ {req},
                  !.drag.ticked = @ \/ (drag.on /\ isDraggingRef),
                  !.log = <<>>]
         s1 == AnimateThrows(s0, Closure(req.inst, req), kind)
     IN RotOk(s1.cube) /\ Install(s1)
  /\ lastOp' = "drawError"
  /\ UNCHANGED hist
  /\ UNCHANGED kind

\* the deferred setTimeout(() => handleResize()) of instance i fires
TimerFire(i) ==
  /\ i \in timers
  /\ Install(handleResize([State EXCEPT !.timers = @ \ {i}, !.log = <<>>], i, kind))
  /\ lastOp' = "timer"
  /\ UNCHANGED hist
  /\ UNCHANGED kind

\* the window's resize event reaches a registered handleResize
WindowResize(l) ==
  /\ l \in listeners /\ l.type = "resize"
  /\ Install(handleResize([State EXCEPT !.log = <<>>], l.inst, kind))
  /\ lastOp' = "resize"
  /\ UNCHANGED hist
  /\ UNCHANGED kind

\* the page lays the mount point out at another size
Layout(size) ==
  /\ attached /\ size \in Sizes /\ size # client
  /\ Install([State EXCEPT !.client = size, !.log = <<>>])
  /\ lastOp' = "layout"
  /\ UNCHANGED hist
  /\ UNCHANGED kind

\* ------------------------------------------------------- pointer handlers
Positions == [x : 0..MaxPos, y : 0..MaxPos]

handleMouseDown(s, p) ==
  [s EXCEPT !.isDraggingRef = TRUE, !.previousMousePositionRef = p]

handleMouseMove(s, p) ==
  IF ~s.isDraggingRef \/ s.cube.inst = 0 THEN s
  ELSE [s EXCEPT
          !.cube.rotY = @ + (p.x - s.previousMousePositionRef.x) * Sensitivity,
          !.cube.rotX = @ + (p.y - s.previousMousePositionRef.y) * Sensitivity,
          !.previousMousePositionRef = p]

handleMouseUp(s) == [s EXCEPT !.isDraggingRef = FALSE]

\* mousedown on a canvas that is in the page
MouseDown(l, p) ==
  /\ l \in listeners /\ l.type = "mousedown"
  /\ attached /\ l.inst \in children
  /\ p \in Positions
  /\ Install([handleMouseDown(State, p) EXCEPT
                !.drag = [on |-> TRUE, rotX |-> cube.rotX, rotY |-> cube.rotY,
                          x |-> p.x, y |-> p.y, ticked |-> FALSE],
                !.log = <<>>])
  /\ lastOp' = "handleMouseDown"
  /\ UNCHANGED hist
  /\ UNCHANGED kind

\* mousemove anywhere on the document
MouseMove(l, p) ==
  /\ l \in listeners /\ l.type = "mousemove"
  /\ p \in Positions
  /\ LET s1 == handleMouseMove([State EXCEPT !.log = <<>>], p)
     IN RotOk(s1.cube) /\ Install(s1)
  /\ lastOp' = "handleMouseMove"
  /\ UNCHANGED hist
  /\ UNCHANGED kind

\* mouseup anywhere on the document
MouseUp(l) ==
  /\ l \in listeners /\ l.type = "mouseup"
  /\ Install([handleMouseUp(State) EXCEPT !.drag = NoDrag, !.log = <<>>])
  /\ lastOp' = "handleMouseUp"
  /\ UNCHANGED hist
  /\ UNCHANGED kind

\* the panel observed: the configuration and the look before each change
Observed(A) ==
  /\ A
  /\ hist' = LET snap == [cfg |-> cfg, look |-> Look(cube)]
             IN IF Len(hist) = 2 THEN <<hist[2], snap>> ELSE Append(hist, snap)

\* ------------------------------------------------------------------- Next
\* the lifecycle of any of the four scenes
Next ==
  \/ \E glOk \in BOOLEAN : Mount(glOk)
  \/ \E glOk \in BOOLEAN :
       ChangeConfig("autoRotate", ~cfg.autoRotate, glOk) /\ UNCHANGED hist
  \/ \E d \in BOOLEAN : \E glOk \in BOOLEAN : StrictRemount(d, glOk)
  \/ Unmount
  \/ DuplicateMount
  \/ \E req \in rafQueue : Tick(req)
  \/ \E req \in rafQueue : TickDrawError(req)
  \/ \E i \in timers : TimerFire(i)
  \/ \E l \in listeners : WindowResize(l)
  \/ \E size \in Sizes : Layout(size)

Spec == Init /\ [][Next]_vars

\* the cube scene and the pointer, in a page of fixed size
InitCube ==
  /\ InitWith("cube", [w |-> MaxDim, h |-> 1])
  /\ points = <<>> /\ galaxy = NoGalaxy /\ vehicle = NoVehicle

NextCube ==
  \/ Mount(TRUE)
  \/ ChangeConfig("autoRotate", ~cfg.autoRotate, TRUE) /\ UNCHANGED hist
  \/ \E req \in rafQueue : Tick(req)
  \/ \E i \in timers : TimerFire(i)
  \/ \E l \in listeners : \E p \in Positions : MouseDown(l, p)
  \/ \E l \in listeners : \E p \in Positions : MouseMove(l, p)
  \/ \E l \in listeners : MouseUp(l)

SpecCube == InitCube /\ [][NextCube]_vars

\* the cube scene and its control panel, in a page of fixed size
NextPanel ==
  \/ Mount(TRUE)
  \/ \E o \in Options : \E v \in OptionValues(o) :
       Observed(ChangeConfig(o, v, TRUE))
  \/ Unmount
  \/ \E req \in rafQueue : Tick(req)
  \/ \E i \in timers : TimerFire(i)

SpecPanel == InitCube /\ [][NextPanel]_vars

\* -------------------------------------------------------------- particles
\* coordinates and velocities are in hundredths
Floor     == 0        \* positions[i + 1] < 0
Range     == 10000    \* Math.abs(positions[i]) > 100
Ceiling   == 5000     \* 50 + Math.random() * 50
SpawnSpan == 5000

Abs(n) == IF n < 0 THEN -n ELSE n

\* outcomes of the three Math.random() calls of a respawn: x and z in
\* [-100, 100), the height above the ceiling in [0, 50)
Randoms == [x : {Range - 6, Range - 4}, up : {0, SpawnSpan - 1}, z : {0}]

\* points as createParticleSystem seeds them and as ticks leave them: rain
\* about to reach the ground, rain about to leave the range along x and
\* along z, a spark rising near the edge
Seeds ==
  { [x |-> 0,    y |-> 400,  z |-> 0,     vx |-> 0, vy |-> -200, vz |-> 0],
    [x |-> 9998, y |-> 6000, z |-> 0,     vx |-> 5, vy |-> -300, vz |-> 0],
    [x |-> 0,    y |-> 5200, z |-> -9998, vx |-> 0, vy |-> -450, vz |-> -5],
    [x |-> 9990, y |-> 100,  z |-> 0,     vx |-> 5, vy |-> 100,  vz |-> 0] }

\* the loop body as it would be without the reset
ParticleStep_NoReset(pt, rnd) ==
  [pt EXCEPT !.x = @ + pt.vx, !.y = @ + pt.vy, !.z = @ + pt.vz]

\* the loop body as it would be if it reset only the points that fell too low
ParticleStep_FloorOnly(pt, rnd) ==
  LET moved == [pt EXCEPT !.x = @ + pt.vx, !.y = @ + pt.vy, !.z = @ + pt.vz]
  IN IF moved.y < Floor
     THEN [moved EXCEPT !.x = rnd.x, !.y = Ceiling + rnd.up, !.z = rnd.z]
     ELSE moved

\* the loop body of the particle update for one point: move, then reset a
\* point that fell too low or went too far
ParticleStep(pt, rnd) ==
  LET moved == [pt EXCEPT !.x = @ + pt.vx, !.y = @ + pt.vy, !.z = @ + pt.vz]
  IN IF moved.y < Floor \/ Abs(moved.x) > Range \/ Abs(moved.z) > Range
     THEN [moved EXCEPT !.x = rnd.x, !.y = Ceiling + rnd.up, !.z = rnd.z]
     ELSE moved

\* the particle update of animate over the position attribute
MoveParticles(ps, rnds) == [i \in 1..Len(ps) |-> ParticleStep(ps[i], rnds[i])]

\* a tick of the city updates its particle system
ParticleTick(rnds) ==
  /\ kind = "city" /\ points # <<>>
  /\ Install([State EXCEPT !.points = MoveParticles(points, rnds), !.log = <<>>])
  /\ lastOp' = "particles"
  /\ UNCHANGED hist
  /\ UNCHANGED kind

\* ----------------------------------------------------------------- galaxy
\* time in hundredths, the cloud's rotation in ten-thousandths of a radian,
\* the other angles in thousandths
TimeStep            == 1     \* timeRef.current += 0.01
CloudTurn           == 2     \* rotation.y = timeRef.current * 0.02
SunStep             == 5     \* sun.rotation.y += 0.005
PlanetOrbitSpeed    == 25    \* orbitSpeed: 0.025
PlanetRotationSpeed == 15    \* rotationSpeed: 0.015
MoonOrbitSpeed      == 80    \* orbitSpeed: 0.08 + i * 0.03, i = 0

\* per-point attributes as the build loop leaves them, in hundredths:
\* position, color (the lerp parameter radius / galaxyRadius), aScale in
\* [0.5, 1), one component of aRandom in [-1, 1)
StarSeeds ==
  [x : {-300, 0, 1250}, y : {-4, 3}, z : {0, 700},
   color : {0, 60}, aScale : {50, 99}, aRandom : {-100, 0, 99}]

\* animate as it would be if it moved every point along its aRandom
AnimateGalaxy_PerPoint(g) ==
  [g EXCEPT !.time = @ + TimeStep,
            !.cloudRotY = (g.time + TimeStep) * CloudTurn,
            !.uTime = g.time + TimeStep,
            !.attrs = [i \in 1..Len(@) |-> [@[i] EXCEPT !.y = @ + g.attrs[i].aRandom]],
            !.sunRotY = @ + SunStep,
            !.planetAngle = @ + PlanetOrbitSpeed,
            !.planetRotY = @ + PlanetRotationSpeed,
            !.moonAngle = @ + MoonOrbitSpeed]

\* what animate of the galaxy does to the scene before it draws
AnimateGalaxy(g) ==
  [g EXCEPT !.time = @ + TimeStep,
            !.cloudRotY = (g.time + TimeStep) * CloudTurn,
            !.uTime = g.time + TimeStep,
            !.sunRotY = @ + SunStep,
            !.planetAngle = @ + PlanetOrbitSpeed,
            !.planetRotY = @ + PlanetRotationSpeed,
            !.moonAngle = @ + MoonOrbitSpeed]

\* a tick of the galaxy
GalaxyTick ==
  /\ kind = "galaxy" /\ galaxy.attrs # <<>>
  /\ galaxy.time < MaxTime
  /\ Install([State EXCEPT !.galaxy = AnimateGalaxy(@), !.log = <<>>])
  /\ lastOp' = "galaxyTick"
  /\ UNCHANGED hist
  /\ UNCHANGED kind

\* --------------------------------------------------------------- vehicles
\* positions and speeds in hundredths, directions in fifths of a unit vector
Boundary == 8000     \* vehicle.position.length() > 80
DirUnit  == 5

\* vehicles as createFlyingVehicle leaves them: x and z in [-50, 50), y in
\* [20, 50), speed in [0.1, 0.4), a direction of length 1; far: the outcome
\* of the boundary test of the last tick, none yet
VehicleSeeds ==
  { [x |-> 4900, y |-> 2000, z |-> 4900, dx |-> 5,  dy |-> 0, dz |-> 0,
     speed |-> 35, far |-> FALSE],
    [x |-> 0,    y |-> 2000, z |-> 0,    dx |-> 3,  dy |-> 0, dz |-> 4,
     speed |-> 35, far |-> FALSE],
    [x |-> 4900, y |-> 4900, z |-> 4900, dx |-> 5,  dy |-> 0, dz |-> 0,
     speed |-> 30, far |-> FALSE],
    [x |-> 4950, y |-> 4950, z |-> 4950, dx |-> -5, dy |-> 0, dz |-> 0,
     speed |-> 35, far |-> FALSE] }

\* vehicle.position.length() > 80, on the squares
Beyond(v) == v.x * v.x + v.y * v.y + v.z * v.z > Boundary * Boundary

\* the vehicle update of animate for one vehicle: advance along the
\* direction, then negate the direction of a vehicle that is too far
MoveVehicle(v) ==
  LET moved == [v EXCEPT !.x = @ + (v.dx * v.speed) \div DirUnit,
                         !.y = @ + (v.dy * v.speed) \div DirUnit,
                         !.z = @ + (v.dz * v.speed) \div DirUnit]
  IN IF Beyond(moved)
     THEN [moved EXCEPT !.dx = 0 - @, !.dy = 0 - @, !.dz = 0 - @, !.far = TRUE]
     ELSE [moved EXCEPT !.far = FALSE]

\* a tick of the city updates a vehicle
VehicleTick ==
  /\ kind = "city" /\ vehicle.speed # 0
  /\ Install([State EXCEPT !.vehicle = MoveVehicle(@), !.log = <<>>])
  /\ lastOp' = "vehicles"
  /\ UNCHANGED hist
  /\ UNCHANGED kind

\* -------------------------------------------------------------- city grid
GridHalf  == 60    \* for (let x = -60; x <= 60; ...)
GridStep  == 20    \* x += 20
ClearHalf == 10    \* Math.abs(x) < 10 && Math.abs(z) < 10

\* the values the loop variable of a grid loop takes
GridAxis == {c \in (0 - GridHalf)..GridHalf : (c + GridHalf) % GridStep = 0}

\* the cells for which the grid loops reach createBuilding
CityGrid ==
  {c \in GridAxis \X GridAxis : ~(Abs(c[1]) < ClearHalf /\ Abs(c[2]) < ClearHalf)}

\* buildings in the scene of instance i
BuildingsOf(i) == IF i # 0 /\ kind = "city" THEN Cardinality(CityGrid) ELSE 0

\* -------------------------------------------------------------- resources
\* the geometries and materials each build creates
Created(k) ==
  CASE k = "cube"   -> {"cube", "plane"}
    [] k = "galaxy" -> {"particles", "sun", "planets", "orbits", "rings", "moons"}
    [] k = "text"   -> {"letters", "shapes", "plane"}
    [] k = "city"   -> {"buildings", "windows", "antennas", "ground",
                        "vehicles", "vehicleLights", "particles"}

\* the geometries and materials the cleanup's dispose statements release
Released(k) ==
  CASE k = "cube"   -> {"cube", "plane"}
    [] k = "galaxy" -> {"particles", "planets", "moons"}
    [] k = "text"   -> {"shapes", "plane"}
    [] k = "city"   -> {}

\* what has been released of torn-down instance i
ReleasedOf(i) == IF i \in geoDisposed THEN Released(kind) ELSE {}

\* the city and its panel
InitCity ==
  \E size \in Sizes :
     InitWith("city", size) /\ points = <<>> /\ galaxy = NoGalaxy
       /\ vehicle = NoVehicle

NextCity ==
  \/ Mount(TRUE)
  \/ \E o \in CityOptions : \E v \in CityOptionValues(o) :
       ChangeCityConfig(o, v, TRUE)
  \/ Unmount
  \/ \E req \in rafQueue : Tick(req)
  \/ \E l \in listeners : WindowResize(l)
  \/ \E size \in Sizes : Layout(size)

SpecCity == InitCity /\ [][NextCity]_vars

\* the galaxy's update, from every outcome of the build of the points followed
InitGalaxy ==
  /\ InitWith("galaxy", [w |-> MaxDim, h |-> 1])
  /\ points = <<>>
  /\ \E attrs \in [1..MaxPoints -> StarSeeds] :
       galaxy = [NoGalaxy EXCEPT !.attrs = attrs]
  /\ vehicle = NoVehicle

NextGalaxy == GalaxyTick

SpecGalaxy == InitGalaxy /\ [][NextGalaxy]_vars

\* the vehicle update, from the positions the build can give a vehicle; ticks
\* keep coming
InitVehicles ==
  /\ InitWith("city", [w |-> MaxDim, h |-> 1])
  /\ points = <<>> /\ galaxy = NoGalaxy
  /\ vehicle \in VehicleSeeds

NextVehicles == VehicleTick

SpecVehicles == InitVehicles /\ [][NextVehicles]_vars /\ WF_vars(NextVehicles)

\* the cube and its panel, or the city and its panel
InitPanels == InitCube \/ InitCity

NextPanels ==
  \/ kind = "cube" /\ NextPanel
  \/ kind = "city" /\ NextCity

SpecPanels == InitPanels /\ [][NextPanels]_vars

\* the particle update, from every seeding of the points followed
InitParticles ==
  /\ InitWith("city", [w |-> MaxDim, h |-> 1])
  /\ points \in [1..MaxPoints -> Seeds]
  /\ galaxy = NoGalaxy
  /\ vehicle = NoVehicle

NextParticles == \E rnds \in [1..MaxPoints -> Randoms] : ParticleTick(rnds)

SpecParticles == InitParticles /\ [][NextParticles]_vars

\* ------------------------------------------------------------- properties
\* the positions in the log of the last step's calls of the operations ops
Calls(ops) == {n \in 1..Len(log) : log[n].op \in ops}

\* C1: once an instance is torn down no frame request of it is pending and it
\* never draws again: every pending request and every draw call belongs to
\* the live instance, whose renderer is not disposed.
C1_NoFrameAfterTeardown ==
  /\ \A r \in rafQueue : r.inst = live /\ r.inst \notin disposed
  /\ \A n \in Calls({"render"}) : log[n].inst = live /\ ~log[n].stale

\* an unmount that found a frame request pending, cancelled it, and left none
C1_Witness ==
  /\ lastOp = "unmount"
  /\ Calls({"cancelFrame"}) # {}
  /\ Calls({"rendererDispose"}) # {}
  /\ rafQueue = {}

\* the place of a cleanup statement in the required order
StepRank(op) ==
  CASE op = "cancelFrame" -> 1
    [] op \in {"removeMouse", "controlsDispose"} -> 2
    [] op = "removeResize" -> 3
    [] op \in {"detachCanvas", "rendererDispose"} -> 4
    [] op = "disposeGeometry" -> 5
    [] OTHER -> 0

\* C2: every teardown cancels the frame request, then removes the input
\* listeners, then the resize listener, then detaches the canvas and destroys
\* the renderer, then disposes geometries and materials; no later step runs
\* before an earlier one.
C2_RequiredOrder ==
  \A m, n \in 1..Len(log) :
    (m < n /\ StepRank(log[m].op) > 0 /\ StepRank(log[n].op) > 0)
      => StepRank(log[m].op) <= StepRank(log[n].op)

\* C3: no callback of a torn-down instance calls a method of its disposed
\* renderer or of its camera.
C3_NoCallAfterTeardown ==
  \A n \in Calls({"render", "setSize", "updateProjectionMatrix"}) : ~log[n].stale

\* C4: at most one renderer is bound and at most one canvas is a child of the
\* mount point, and exactly one of each while a scene is live.
C4_ExactlyOneContext ==
  /\ Cardinality(children) <= 1
  /\ live # 0 => rendererRef = live /\ children = {live}

\* C5: a mount attempt while rendererRef.current is set changes neither the
\* bound renderer, nor its canvas under the mount point, nor the frame loop,
\* nor the listeners.
C5_DuplicateMountNoOp ==
  [][lastOp' = "duplicateMount" =>
       /\ rendererRef' = rendererRef
       /\ children' = children
       /\ rafQueue' = rafQueue
       /\ listeners' = listeners]_vars

\* C6: from pointer-down on, the cube's rotation differs from its rotation at
\* pointer-down by exactly 0.01 rad per pixel of pointer displacement (x on
\* the Y axis, y on the X axis) whatever ticks ran in between, pointer-up
\* leaves the rotation there, and no tick turns the cube while the dragging
\* flag is set.
C6_DragRotation ==
  /\ [](drag.on /\ isDraggingRef =>
          /\ cube.rotY - drag.rotY = (previousMousePositionRef.x - drag.x) * 10
          /\ cube.rotX - drag.rotX = (previousMousePositionRef.y - drag.y) * 10)
  /\ [][/\ lastOp' = "handleMouseUp" =>
             cube'.rotX = cube.rotX /\ cube'.rotY = cube.rotY
        /\ (lastOp' = "animate" /\ isDraggingRef) =>
             cube'.rotX = cube.rotX /\ cube'.rotY = cube.rotY]_vars

\* a drag with auto-rotate on, during which a tick ran, that has moved the
\* pointer on both axes
C6_Witness ==
  /\ drag.on /\ isDraggingRef /\ drag.ticked /\ cfg.autoRotate
  /\ lastOp = "handleMouseMove"
  /\ previousMousePositionRef.x # drag.x
  /\ previousMousePositionRef.y # drag.y
  /\ cube.rotY # drag.rotY

\* C7: after an option was changed and then changed back, the cube has the
\* color, the edge length on screen and the material it had before.
C7_RoundTrip ==
  (Len(hist) = 2 /\ live # 0 /\ hist[1].cfg = cfg) => Look(cube) = hist[1].look

\* C8: whenever handleResize ran with a measured size W x H, both positive, it
\* passed W x H to setSize and left the camera aspect at exactly W / H.
C8_ResizeAspect ==
  \A n \in Calls({"updateProjectionMatrix"}) :
    (client.w > 0 /\ client.h > 0) =>
      /\ log[n].w = client.w /\ log[n].h = client.h
      /\ n < Len(log) /\ log[n + 1].op = "setSize"
      /\ log[n + 1].w = client.w /\ log[n + 1].h = client.h
      /\ log[n].inst = live =>
           /\ camera.den > 0
           /\ camera.num * client.h = camera.den * client.w
           /\ rsize = client

\* the window's resize event reached the live instance while the mount point
\* was wider than high
C8_Witness ==
  /\ lastOp = "resize" /\ live # 0
  /\ Calls({"updateProjectionMatrix"}) # {}
  /\ client.h > 0 /\ client.w > client.h
  /\ rsize = client

\* C9: a renderer constructor that fails ends in a fallback, never in an
\* error that leaves the mount effect, and leaves nothing registered.
C9_FailureHandled ==
  mountError # "none" =>
    /\ mountError = "fallback"
    /\ listeners = {} /\ rafQueue = {}

\* C10: no mount and no resize handler computes the camera aspect from a zero
\* width or height or sets the renderer to a zero-sized surface.
C10_NoZeroDimension ==
  /\ \A n \in Calls({"setSize", "updateProjectionMatrix"}) :
       log[n].w > 0 /\ log[n].h > 0
  /\ live # 0 => camera.den # 0 /\ rsize.w > 0 /\ rsize.h > 0

\* C11: every change of one of the five options of the cube runs the cleanup
\* of the current instance once and then one full build of a new instance,
\* after which one renderer, one frame loop and one set of listeners is live,
\* all of the new instance.
C11_OneRebuildPerChange ==
  [][lastOp' = "changeConfig" =>
       /\ Cardinality({n \in 1..Len(log') : log'[n].op = "rendererDispose"}) = 1
       /\ \A n \in 1..Len(log') :
            log'[n].op = "rendererDispose" => log'[n].inst = live
       /\ Cardinality({n \in 1..Len(log') : log'[n].op = "render"}) = 1
       /\ \A m, n \in 1..Len(log') :
            (log'[m].op = "rendererDispose" /\ log'[n].op = "render")
              => m < n /\ log'[n].inst = live'
       /\ live' # 0 /\ live' # live /\ live \in disposed'
       /\ rendererRef' = live' /\ children' = {live'} /\ cube'.inst = live'
       /\ Cardinality(rafQueue') = 1 /\ \A r \in rafQueue' : r.inst = live'
       /\ listeners' = EffectListeners(live', "cube")
                         \cup {Listener("controls", "canvas", live')}]_vars

\* the panel has changed the material and the rotation speed, and the scene
\* built by the last change is live
C11_Witness ==
  /\ lastOp = "changeConfig" /\ live # 0
  /\ cfg.cubeTexture # DefaultTexture /\ cfg.rotationSpeed # DefaultSpeed
  /\ Calls({"rendererDispose"}) # {}

\* C12: once an instance is torn down, every geometry and every material its
\* build created has been disposed.
C12_AllDisposed ==
  \A i \in disposed : Created(kind) \subseteq ReleasedOf(i)

C14_FallOrFloorRespawn ==
  [][lastOp' = "particles" =>
       \A i \in 1..Len(points) :
         points[i].vy < 0 =>
           \/ points'[i].y = points[i].y + points[i].vy
           \/ /\ points[i].y + points[i].vy < 0
              /\ points'[i].y >= 5000]_vars

\* C14 amended: in a particle tick every point is moved by its velocity on
\* the three axes; a point that is then below 0 or farther than 100 from the
\* origin along x or z is respawned in the same tick with its vertical
\* coordinate in [50, 100) and x, z in [-100, 100); every other point stays
\* where the move put it; no velocity changes.
C14_MoveThenReset ==
  [][lastOp' = "particles" =>
       /\ Len(points') = Len(points)
       /\ \A i \in 1..Len(points) :
            LET mx == points[i].x + points[i].vx
                my == points[i].y + points[i].vy
                mz == points[i].z + points[i].vz
                out == my < 0 \/ mx > 10000 \/ mx < -10000
                              \/ mz > 10000 \/ mz < -10000
            IN /\ points'[i].vx = points[i].vx
               /\ points'[i].vy = points[i].vy
               /\ points'[i].vz = points[i].vz
               /\ ~out => /\ points'[i].x = mx
                          /\ points'[i].y = my
                          /\ points'[i].z = mz
               /\ out => /\ points'[i].y >= 5000 /\ points'[i].y < 10000
                         /\ points'[i].x >= -10000 /\ points'[i].x < 10000
                         /\ points'[i].z >= -10000 /\ points'[i].z < 10000]_vars

\* a tick has left a falling point on the ground after an earlier tick
\* respawned it at the ceiling (it was seeded below the ceiling)
C14_Witness ==
  /\ lastOp = "particles"
  /\ \E i \in 1..Len(points) :
       /\ points[i].vy = -200 /\ points[i].y = 0 /\ points[i].x # 0

\* C15: a run of handleResize, from the window's resize event or from the
\* deferred timer, changes nothing but the camera aspect and the renderer
\* size: the canvases in the mount point, the cube and its transform and
\* material, the pending frame, the listeners, the interaction state and the
\* configuration stay as they were, and the only calls made are
\* updateProjectionMatrix and setSize.
C15_ResizeOnlyAspectAndSize ==
  [][lastOp' \in {"resize", "timer"} =>
       /\ children' = children /\ cube' = cube /\ cfg' = cfg
       /\ isDraggingRef' = isDraggingRef
       /\ previousMousePositionRef' = previousMousePositionRef
       /\ rafQueue' = rafQueue /\ animationIdRef' = animationIdRef
       /\ listeners' = listeners
       /\ live' = live /\ rendererRef' = rendererRef
       /\ controlsRef' = controlsRef
       /\ disposed' \subseteq disposed /\ geoDisposed' \subseteq geoDisposed
       /\ attached' = attached /\ client' = client
       /\ mountError' = mountError /\ points' = points
       /\ uSize' = uSize /\ cityCfg' = cityCfg
       /\ flyingObjectsRef' = flyingObjectsRef
       /\ particleSystemsRef' = particleSystemsRef
       /\ \A n \in 1..Len(log') :
            log'[n].op \in {"updateProjectionMatrix", "setSize"}]_vars

\* the window's resize event reached the live cube after a tick had turned
\* it, while the mount point was a square
C15_Witness ==
  /\ lastOp = "resize" /\ live # 0 /\ kind = "cube"
  /\ Calls({"setSize"}) # {}
  /\ client.w > 0 /\ client.h = client.w
  /\ rsize = client
  /\ cube.inst = live /\ cube.rotX > 0

\* C16: a run of handleResize that directly follows a run of the handleResize
\* of the same instance leaves the camera aspect, the renderer size and all
\* the rest of the scene state as the first run left them, and makes the same
\* calls with the same arguments.
C16_ResizeIdempotent ==
  [][(/\ lastOp \in {"resize", "timer"} /\ lastOp' \in {"resize", "timer"}
      /\ log # <<>> /\ log' # <<>> /\ log'[1].inst = log[1].inst) =>
       /\ camera' = camera /\ rsize' = rsize /\ log' = log
       /\ children' = children /\ cube' = cube /\ cfg' = cfg
       /\ rafQueue' = rafQueue /\ listeners' = listeners
       /\ live' = live /\ rendererRef' = rendererRef
       /\ disposed' \subseteq disposed /\ geoDisposed' \subseteq geoDisposed]_vars

\* the deferred handleResize of the live instance has run and the window's
\* resize event then reached the same instance, in a mount point of positive
\* size
C16_Witness ==
  /\ lastOp = "resize" /\ live # 0 /\ live \notin timers
  /\ log # <<>> /\ log[1].inst = live
  /\ client.w > 0 /\ client.h > 0
  /\ rsize = client /\ camera.den > 0

\* C17: every built city has at least 50 buildings in its scene.
C17_FiftyBuildings ==
  (kind = "city" /\ live # 0) => BuildingsOf(live) >= 50

\* C18: the cube of a built scene (rotation, position, scale, color) is
\* changed only by a frame tick: a step that changes the cube of the same
\* instance is a run of animate, never a pointer handler or another callback.
C18_SingleWriter ==
  [][(cube.inst # 0 /\ cube'.inst = cube.inst /\ cube' # cube) =>
        lastOp' = "animate"]_vars

\* C19: while a city is built, flyingObjectsRef holds the 8 vehicles of the
\* live build and none of a torn-down build, and particleSystemsRef holds no
\* particle system of a torn-down build.
C19_OnlyCurrentVehicles ==
  (kind = "city" /\ live # 0) =>
     /\ flyingObjectsRef = [own |-> 8, old |-> 0]
     /\ particleSystemsRef # "old"

\* C20: a tick in which the draw call throws ends the frame loop of its
\* instance: no frame request of that instance is pending after it.
C20_DrawErrorStops ==
  [][lastOp' = "drawError" =>
       \A n \in 1..Len(log') :
          log'[n].op = "renderThrows" =>
             \A r \in rafQueue' : r.inst # log'[n].inst]_vars

\* C21 as stated: at most one frame request is pending after every step,
\* every tick makes exactly one draw call, and a tick requests the next frame
\* only once its own work, the draw call included, is done.
C21_RequestAfterDraw ==
  [][/\ Cardinality(rafQueue') <= 1
     /\ lastOp' = "animate" =>
          /\ Cardinality({n \in 1..Len(log') : log'[n].op = "render"}) = 1
          /\ \A m, n \in 1..Len(log') :
               (log'[m].op = "render" /\ log'[n].op = "requestAnimationFrame")
                 => m < n]_vars

\* C21 amended: at most one frame request is pending after every step; every
\* tick requests the next frame exactly once, as its first statement, then
\* makes exactly one draw call, and leaves exactly one request pending. The
\* requested frame runs only after the tick has returned.
C21_OneFramePending ==
  [][/\ Cardinality(rafQueue') <= 1
     /\ lastOp' = "animate" =>
          /\ Cardinality({n \in 1..Len(log') : log'[n].op = "render"}) = 1
          /\ Cardinality({n \in 1..Len(log') :
                            log'[n].op = "requestAnimationFrame"}) = 1
          /\ log'[1].op = "requestAnimationFrame"
          /\ log'[Len(log')].op = "render"
          /\ Cardinality(rafQueue') = 1
          /\ \A r \in rafQueue' : r.inst = log'[1].inst]_vars

\* a tick of a scene built by a rebuild has requested the next frame and drawn
C21_Witness ==
  /\ lastOp = "animate" /\ live # 0
  /\ Cardinality(rafQueue) = 1
  /\ Calls({"requestAnimationFrame"}) # {} /\ Calls({"render"}) # {}
  /\ \A r \in rafQueue : r.inst = live
  /\ disposed # {}

\* C22: a tick of the galaxy leaves every per-point attribute of the cloud
\* (position, color, aScale, aRandom) as the build computed it; for the cloud
\* it changes only the time uniform, set to the advanced time, and the
\* rotation of the whole cloud, set from the advanced time.
C22_TickKeepsAttributes ==
  [][lastOp' = "galaxyTick" =>
       /\ galaxy'.attrs = galaxy.attrs
       /\ galaxy'.time = galaxy.time + 1
       /\ galaxy'.uTime = galaxy'.time
       /\ galaxy'.cloudRotY = 2 * galaxy'.time]_vars

\* two ticks have turned the cloud and advanced the time uniform of a cloud
\* whose first point has a random phase
C22_Witness ==
  /\ lastOp = "galaxyTick"
  /\ galaxy.time = 2 /\ galaxy.uTime = 2 /\ galaxy.cloudRotY = 4
  /\ galaxy.attrs # <<>> /\ galaxy.attrs[1].aRandom # 0

\* C23: while a cube is built, its rendered edge length, the edge of the box
\* geometry times the scale of the mesh, equals the configured size (the
\* scale is kept in fifteenths: 15 is the factor 1).
C23_RenderedSize ==
  (kind = "cube" /\ live # 0 /\ cube.inst = live) =>
     cube.edge * cube.scale = cfg.cubeSize * 15

\* C24: no vehicle stays farther than 80 from the origin forever: whenever a
\* vehicle is farther than 80 it is within 80 again some ticks later.
C24_Contained ==
  (lastOp = "vehicles" /\ vehicle.far) ~> (lastOp = "vehicles" /\ ~vehicle.far)

\* C25: while the particle-effects option of the city is off, the list of
\* particle systems the tick goes through is empty and no tick updates a
\* particle system.
C25_NoParticlesWhenOff ==
  (kind = "city" /\ live # 0 /\ ~cityCfg.effectsEnabled) =>
     /\ particleSystemsRef = "none"
     /\ Calls({"updateParticles"}) = {}

\* C26: after the build and after every tick every particle is at or above
\* the ground and within 100 of the origin along x and along z.
C26_ParticlesInBounds ==
  \A i \in 1..Len(points) :
     /\ points[i].y >= 0
     /\ points[i].x >= -10000 /\ points[i].x <= 10000
     /\ points[i].z >= -10000 /\ points[i].z <= 10000

\* a tick has put a point that left the bounds back at the ceiling
C26_Witness ==
  /\ lastOp = "particles"
  /\ \E i \in 1..Len(points) : points[i].y = 5000 /\ points[i].x >= 9994

\* C27: in the cube scene, while a scene is live exactly one resize, one
\* mousedown, one mousemove and one mouseup listener are registered, all of
\* the live instance; while none is live, none of them is registered.
C27_NoListenerLeak ==
  kind = "cube" =>
    \A ty \in {"resize", "mousedown", "mousemove", "mouseup"} :
       LET ls == {l \in listeners : l.type = ty}
       IN IF live # 0
          THEN Cardinality(ls) = 1 /\ \A l \in ls : l.inst = live
          ELSE ls = {}

\* an unmount has removed the listeners of a scene built by a rebuild
C27_Witness ==
  /\ lastOp = "unmount" /\ kind = "cube"
  /\ Calls({"removeMouse"}) # {} /\ Calls({"removeResize"}) # {}
  /\ listeners = {}
  /\ \E n \in Calls({"removeMouse"}) : log[n].inst > 1

\* C28: every pending frame request, and so every tick, carries the current
\* configuration: in the cube scene the auto-rotate flag and the rotation
\* speed its animate closed over are those configured now, in the city the
\* camera mode is the one selected now.
C28_NoStaleConfig ==
  \A r \in rafQueue :
     /\ kind = "cube" => /\ r.autoRotate = cfg.autoRotate
                         /\ r.rotationSpeed = cfg.rotationSpeed
     /\ kind = "city" => r.cameraMode = cityCfg.cameraMode

\* a tick has run with a rotation speed that the panel had changed
C28_Witness ==
  /\ lastOp = "animate" /\ kind = "cube" /\ live # 0
  /\ cfg.autoRotate /\ cfg.rotationSpeed # DefaultSpeed
  /\ rafQueue # {}
  /\ \A r \in rafQueue : r.rotationSpeed = cfg.rotationSpeed

\* C29: a configuration change replaces the cube with a new mesh created at
\* rotation zero on both axes: at the end of the rebuild its rotation is what
\* the first frame of the new loop made of zero (one auto-rotation step when
\* auto-rotate is on and no drag is in progress, zero otherwise), whatever
\* the old cube's rotation was; the dragging flag and the last pointer
\* position are the same before and after the rebuild.
C29_RebuildResetsRotation ==
  [][lastOp' = "changeConfig" =>
       LET first == IF cfg'.autoRotate /\ ~isDraggingRef
                    THEN (10 * cfg'.rotationSpeed) \div 10 ELSE 0
       IN /\ cube'.inst # 0 /\ cube'.inst # cube.inst
          /\ cube'.rotX = first /\ cube'.rotY = first
          /\ isDraggingRef' = isDraggingRef
          /\ previousMousePositionRef' = previousMousePositionRef]_vars

\* a configuration change made in the middle of a drag has left a cube that
\* is not turned, with the drag still in progress
C29_Witness ==
  /\ lastOp = "changeConfig" /\ live # 0 /\ cube.inst = live
  /\ isDraggingRef /\ previousMousePositionRef.x > 0
  /\ cube.rotX = 0 /\ cube.rotY = 0

====
